---- MODULE Spec2Model ----
(***************************************************************************)
(* Model of the WebSocket transport of mcp-demo:                           *)
(*   - the client hook useWebSocket (src/src/hooks/useWebSocket.ts):       *)
(*     connect / disconnect / sendMessage, the socket callbacks, the       *)
(*     reconnect timer and the per-request timeout;                        *)
(*   - the server MCPWebSocketServer (src/unnamed/part_006):               *)
(*     handleConnection, handleMessage, handleMCPRequest, the registry.    *)
(* Time is Date.now() in milliseconds; it advances by Tick.                *)
(***************************************************************************)
EXTENDS Integers, Sequences, FiniteSets, TLC

\* ------------------------------------------------------------------ bounds
MaxSockets == 3       \* WebSocket objects one hook instance creates
MaxSendSockets == 2   \* of them, while requests are being sent
MaxRequests == 2      \* calls of sendMessage
MaxRandom == 2        \* distinct outcomes of Math.random() in an id
MaxDelays == 1        \* the clock is read at instants a * ReconnectDelay +
MaxTimeouts == 1      \*   b * RequestTimeout, a <= MaxDelays, b <= MaxTimeouts
MaxConns == 2         \* connections the server accepts
MaxInbox == 2         \* texts the server receives
MaxUsers == 1         \* identities that open a WebSocket with a valid token
MaxPings == 1         \* the server reads the clock at b * PingInterval, b <= MaxPings
MaxPushes == 1        \* envelopes broadcast()/sendToUser() deliver to one connection
MaxPosts == 2         \* requests POST /api/mcp answers
MaxAccounts == 3      \* identities whose token reaches POST /api/mcp
MaxVersions == 2      \* distinct descriptors registered under one name

\* ------------------------------------------------------- program constants
ReconnectDelay == 3000
RequestTimeout == 30000
NormalClosure == 1000
AbnormalClosure == 1006
PolicyViolation == 1008

Instants ==
  {a * ReconnectDelay + b * RequestTimeout : a \in 0..MaxDelays, b \in 0..MaxTimeouts}

NoUser == 0
Users == {1}
NoSocket == 0
NoTimer == 0

\* ------------------------------------------------------------ envelope ids
MsgId(t, r) == <<"msg", t, r>>
NoId == <<"", 0, 0>>
WelcomeId == <<"welcome", 0, 0>>
PingId == <<"ping", 0, 0>>

EnvelopeTypes == {"mcp_request", "mcp_response", "error", "ping", "pong"}

VARIABLES
  now,                  \* Date.now()
  user,                 \* useAuth().user of the current render
  wsRef,                \* wsRef.current: a socket or NoSocket
  reconnectTimeoutRef,  \* reconnectTimeoutRef.current: a timer handle or NoTimer
  sockets,              \* the WebSocket objects created by connect(), in order
  timers,               \* outstanding reconnect timers (setTimeout not yet fired)
  state,                \* the hook's useState record (isConnected, isConnecting,
                        \*   error; lastMessage is written by onmessage and read
                        \*   by no handler, and is left out)
  messageHandlersRef,   \* messageHandlersRef.current: id -> request
  requests,             \* the promises returned by sendMessage, in order
  conns,                \* server: the accepted WebSockets, in order of arrival
  clients,              \* server: MCPWebSocketServer.clients, clientId -> socket
  inbox,                \* server: the texts received on its connections, in order
  http,                 \* server: the exchanges POST /api/mcp has answered, in order
  tools,                \* the tools Map of the tool registry, in insertion order
  resources             \* the resources Map of the resource registry

clientVars == <<user, wsRef, reconnectTimeoutRef, sockets, timers, state,
                messageHandlersRef, requests>>
serverVars == <<conns, clients, inbox, http, tools, resources>>
vars == <<now, clientVars, serverVars>>

\* ---------------------------------------------------------------- helpers
MapSet(m, k, v) == [x \in DOMAIN m \cup {k} |-> IF x = k THEN v ELSE m[x]]
MapDelete(m, k) == [x \in DOMAIN m \ {k} |-> m[x]]
EmptyMap == [x \in {} |-> 0]

\* The connection part of the hook as one value, so that the bodies of
\* connect() and disconnect() compose inside one handler.
Hook == [user |-> user, wsRef |-> wsRef, ref |-> reconnectTimeoutRef,
         sockets |-> sockets, timers |-> timers, state |-> state]

SetHook(h) ==
  /\ wsRef' = h.wsRef
  /\ reconnectTimeoutRef' = h.ref
  /\ sockets' = h.sockets
  /\ timers' = h.timers
  /\ state' = h.state

IsOpen(h) == h.wsRef # NoSocket /\ h.sockets[h.wsRef].readyState = "OPEN"

\* connect() returns at once without a user or with an open current socket.
ConnectReturnsEarly(h, u) == u = NoUser \/ IsOpen(h)

NewSocket(u) ==
  [readyState |-> "CONNECTING", user |-> u, closeCode |-> 0]

\* connect(), closed over the user u of the render that created it.
ConnectBody(h, u) ==
  IF ConnectReturnsEarly(h, u) THEN h
  ELSE [h EXCEPT
          !.state = [@ EXCEPT !.isConnecting = TRUE, !.error = "none"],
          !.sockets = Append(@, NewSocket(u)),
          !.wsRef = Len(h.sockets) + 1]

\* WebSocket.close(1000, ...) of the browser: a socket still connecting fails
\* (its close event reports 1006), an open one runs the closing handshake.
CloseSocket(sock) ==
  IF sock.readyState = "CONNECTING"
    THEN [sock EXCEPT !.readyState = "CLOSING", !.closeCode = AbnormalClosure]
  ELSE IF sock.readyState = "OPEN"
    THEN [sock EXCEPT !.readyState = "CLOSING", !.closeCode = NormalClosure]
  ELSE sock

\* Mutant: disconnect() closes the current socket but keeps referring to it.
DisconnectBody_KeepsSocket(h) ==
  LET h1 == IF h.ref # NoTimer
              THEN [h EXCEPT !.timers = {t \in @ : t.id # h.ref}, !.ref = NoTimer]
              ELSE h
      h2 == IF h1.wsRef # NoSocket
              THEN [h1 EXCEPT !.sockets[h1.wsRef] = CloseSocket(@)]
              ELSE h1
  IN [h2 EXCEPT !.state = [@ EXCEPT !.isConnected = FALSE, !.isConnecting = FALSE]]

\* disconnect()
DisconnectBody(h) ==
  LET h1 == IF h.ref # NoTimer
              THEN [h EXCEPT !.timers = {t \in @ : t.id # h.ref}, !.ref = NoTimer]
              ELSE h
      h2 == IF h1.wsRef # NoSocket
              THEN [h1 EXCEPT !.sockets[h1.wsRef] = CloseSocket(@),
                              !.wsRef = NoSocket]
              ELSE h1
  IN [h2 EXCEPT !.state = [@ EXCEPT !.isConnected = FALSE, !.isConnecting = FALSE]]

\* ws.onerror
OnErrorBody(h) ==
  [h EXCEPT !.state = [@ EXCEPT !.error = "WebSocket connection error",
                                !.isConnecting = FALSE]]

\* Mutant: the close handler never schedules a reconnection.
ShouldReconnect_Never(code, u) == FALSE

\* The test of ws.onclose that decides whether to reconnect.
ShouldReconnect(code, u) == code # NormalClosure /\ u # NoUser

\* ws.onclose of socket s, with the event's code; the timer's handle is the
\* socket that armed it (one close event per socket).
OnCloseBody(h, s, code) ==
  LET h1 == [h EXCEPT !.state = [@ EXCEPT !.isConnected = FALSE,
                                           !.isConnecting = FALSE]]
  IN IF ShouldReconnect(code, h.sockets[s].user)
       THEN [h1 EXCEPT
               !.ref = s,
               !.timers = @ \cup {[id |-> s, due |-> now + ReconnectDelay,
                                   user |-> h.sockets[s].user]}]
       ELSE h1

\* The browser's close task: readyState becomes CLOSED, an error event is
\* fired when the connection failed, then the close event.
FireClose(h, s, code) ==
  LET h0 == [h EXCEPT !.sockets[s].readyState = "CLOSED",
                      !.sockets[s].closeCode = 0]
      h1 == IF code = AbnormalClosure THEN OnErrorBody(h0) ELSE h0
  IN OnCloseBody(h1, s, code)

\* Whether running connect() would need a fresh socket beyond the bound.
Room(h, u) == ConnectReturnsEarly(h, u) \/ Len(h.sockets) < MaxSockets

\* ------------------------------------------------------------------- Init
InitClient ==
  /\ user = NoUser
  /\ wsRef = NoSocket
  /\ reconnectTimeoutRef = NoTimer
  /\ sockets = <<>>
  /\ timers = {}
  /\ state = [isConnected |-> FALSE, isConnecting |-> FALSE, error |-> "none"]
  /\ messageHandlersRef = EmptyMap
  /\ requests = <<>>

\* A Map as the sequence of its entries in insertion order.
Entry(k, v) == [key |-> k, val |-> v]
Keys(reg) == {reg[i].key : i \in 1..Len(reg)}

\* The registrations the modules perform when they are loaded, in order.
LoadedTools ==
  <<"get_weather", "list_files", "read_file", "web_search", "db_query",
    "db_schema", "db_samples", "echo", "get_time">>
LoadedResources ==
  <<"docs://mcp-overview", "docs://tool-development", "docs://best-practices",
    "api://weather-endpoints", "api://database-schema",
    "config://server-settings", "config://tool-registry">>
Loaded(names) == [i \in 1..Len(names) |-> Entry(names[i], 1)]

InitServer ==
  /\ conns = <<>>
  /\ clients = [x \in {} |-> 0]
  /\ inbox = <<>>
  /\ http = <<>>
  /\ tools = Loaded(LoadedTools)
  /\ resources = Loaded(LoadedResources)

Init == now = 0 /\ InitClient /\ InitServer

\* ---------------------------------------------------------------- actions
\* Date.now() advances.
Tick ==
  /\ \E t \in Instants : t > now /\ now' = t
  /\ UNCHANGED <<clientVars, serverVars>>

\* The auth context delivers a new user; the auto-connect effect re-runs:
\* the cleanup of the previous run (disconnect()), then connect() or disconnect().
UserChanges(u) ==
  /\ u # user
  /\ LET h1 == DisconnectBody(Hook)
         h2 == IF u # NoUser THEN ConnectBody(h1, u) ELSE DisconnectBody(h1)
     IN /\ Room(h1, u)
        /\ SetHook(h2)
  /\ user' = u
  /\ UNCHANGED <<now, messageHandlersRef, requests>>

\* A caller invokes the connect() the hook returns.
CallConnect ==
  /\ ~ConnectReturnsEarly(Hook, user)
  /\ Room(Hook, user)
  /\ SetHook(ConnectBody(Hook, user))
  /\ UNCHANGED <<now, user, messageHandlersRef, requests>>

\* A caller invokes the disconnect() the hook returns.
CallDisconnect ==
  /\ SetHook(DisconnectBody(Hook))
  /\ UNCHANGED <<now, user, messageHandlersRef, requests>>

\* ws.onopen of socket s
OnOpen(s) ==
  /\ sockets[s].readyState = "CONNECTING"
  /\ sockets' = [sockets EXCEPT ![s].readyState = "OPEN"]
  /\ state' = [state EXCEPT !.isConnected = TRUE, !.isConnecting = FALSE,
                            !.error = "none"]
  /\ UNCHANGED <<now, user, wsRef, reconnectTimeoutRef, timers,
                 messageHandlersRef, requests>>

\* The server or the network ends socket s: a failed handshake reports 1006,
\* an open socket reports the code of the closure.
RemoteClose(s, code) ==
  /\ \/ sockets[s].readyState = "CONNECTING" /\ code = AbnormalClosure
     \/ sockets[s].readyState = "OPEN"
  /\ SetHook(FireClose(Hook, s, code))
  /\ UNCHANGED <<now, user, messageHandlersRef, requests>>

\* The close event of a socket that disconnect() closed.
LocalCloseEvent(s) ==
  /\ sockets[s].readyState = "CLOSING"
  /\ SetHook(FireClose(Hook, s, sockets[s].closeCode))
  /\ UNCHANGED <<now, user, messageHandlersRef, requests>>

\* The reconnect timer t fires: connect(), closed over the user of the render
\* that created the socket.
ReconnectFires(t) ==
  /\ t \in timers
  /\ now >= t.due
  /\ LET h1 == [Hook EXCEPT !.timers = @ \ {t}]
     IN /\ Room(h1, t.user)
        /\ SetHook(ConnectBody(h1, t.user))
  /\ UNCHANGED <<now, user, messageHandlersRef, requests>>

SocketIds == 1..Len(sockets)
CloseCodes == {NormalClosure, AbnormalClosure, PolicyViolation}
Live(s) == sockets[s].readyState \in {"CONNECTING", "OPEN"}

NextConn ==
  \/ Tick
  \/ \E u \in Users \cup {NoUser} : UserChanges(u)
  \/ CallConnect
  \/ CallDisconnect
  \/ \E s \in SocketIds : OnOpen(s)
  \/ \E s \in SocketIds : \E code \in CloseCodes : RemoteClose(s, code)
  \/ \E s \in SocketIds : LocalCloseEvent(s)
  \/ \E t \in timers : ReconnectFires(t)

SpecConn == Init /\ [][NextConn /\ UNCHANGED serverVars]_vars

\* ------------------------------------------------- correlation (sendMessage)
\* The clock reaches the instant at which an outstanding reconnect timer is due.
TimerComesDue ==
  /\ Tick
  /\ \E t \in timers : now < t.due /\ now' >= t.due

\* The opening handshake of socket s ends: it succeeds or it fails.
HandshakeEnds(s) ==
  /\ s \in SocketIds
  /\ OnOpen(s) \/ (sockets[s].readyState = "CONNECTING"
                     /\ RemoteClose(s, AbnormalClosure))
  /\ UNCHANGED serverVars

\* The event loop runs a timer that is due, time does not stop short of a
\* timer's deadline, and no socket stays connecting for ever.
SpecConnFair ==
  /\ SpecConn
  /\ WF_vars(TimerComesDue)
  /\ \A s \in 1..MaxSockets : WF_vars(HandshakeEnds(s))
  /\ WF_vars((\E t \in timers : ReconnectFires(t)) /\ UNCHANGED serverVars)

\* resolve()/reject() of a promise: only the first call settles it.
Settle(req, outcome) ==
  [req EXCEPT !.calls = @ + 1,
              !.future = IF @ = "pending" THEN outcome ELSE @]

\* Mutant: the handler resolves whatever the envelope's type.
HandlerOutcome_AlwaysResolves(m) == "resolved"

\* The handler sendMessage registers: reject on an error envelope, else resolve.
HandlerOutcome(m) == IF m.type = "error" THEN "error" ELSE "resolved"

\* The id sendMessage builds from Date.now() and Math.random().
NewId(rnd) == MsgId(now, rnd)

LastInstant == MaxDelays * ReconnectDelay + MaxTimeouts * RequestTimeout

\* Mutant: sendMessage registers and arms without looking at the channel.
SendMessage_Unguarded(rnd) ==
  /\ Len(requests) < MaxRequests
  /\ now + RequestTimeout <= LastInstant
  /\ messageHandlersRef' =
       MapSet(messageHandlersRef, NewId(rnd), Len(requests) + 1)
  /\ requests' = Append(requests,
       [id |-> NewId(rnd), sock |-> wsRef, armed |-> TRUE,
        due |-> now + RequestTimeout, calls |-> 0, future |-> "pending"])
  /\ UNCHANGED <<now, user, wsRef, reconnectTimeoutRef, sockets, timers, state>>

\* sendMessage(message); rnd is the outcome of Math.random().
SendMessage(rnd) ==
  /\ Len(requests) < MaxRequests
  /\ IF ~IsOpen(Hook)
       THEN /\ requests' = Append(requests,
                 [id |-> NoId, sock |-> NoSocket, armed |-> FALSE, due |-> 0,
                  calls |-> 1, future |-> "WebSocket is not connected"])
            /\ UNCHANGED messageHandlersRef
       ELSE /\ now + RequestTimeout <= LastInstant
            /\ messageHandlersRef' =
                 MapSet(messageHandlersRef, NewId(rnd), Len(requests) + 1)
            /\ requests' = Append(requests,
                 [id |-> NewId(rnd), sock |-> wsRef, armed |-> TRUE,
                  due |-> now + RequestTimeout, calls |-> 0, future |-> "pending"])
  /\ UNCHANGED <<now, user, wsRef, reconnectTimeoutRef, sockets, timers, state>>

\* Mutant: a pong is looked up like any other envelope.
Matches_PongToo(m) == m.id # NoId /\ m.id \in DOMAIN messageHandlersRef

\* Whether ws.onmessage hands the envelope m to a registered handler.
Matches(m) ==
  m.type # "pong" /\ m.id # NoId /\ m.id \in DOMAIN messageHandlersRef

\* ws.onmessage of socket s with a well-formed envelope m.
OnMessage(s, m) ==
  /\ sockets[s].readyState = "OPEN"
  /\ IF Matches(m)
       THEN /\ requests' = [requests EXCEPT ![messageHandlersRef[m.id]] =
                              Settle(@, HandlerOutcome(m))]
            /\ messageHandlersRef' = MapDelete(messageHandlersRef, m.id)
       ELSE UNCHANGED <<requests, messageHandlersRef>>
  /\ UNCHANGED <<now, user, wsRef, reconnectTimeoutRef, sockets, timers, state>>

\* ws.onmessage with text that JSON.parse rejects: caught and logged.
OnGarbage(s) ==
  /\ sockets[s].readyState = "OPEN"
  /\ UNCHANGED <<now, clientVars>>

\* The 30 s timer of request r fires.
RequestTimesOut(r) ==
  /\ requests[r].armed
  /\ now >= requests[r].due
  /\ IF requests[r].id \in DOMAIN messageHandlersRef
       THEN /\ messageHandlersRef' = MapDelete(messageHandlersRef, requests[r].id)
            /\ requests' = [requests EXCEPT ![r] =
                              Settle([@ EXCEPT !.armed = FALSE], "Request timeout")]
       ELSE /\ requests' = [requests EXCEPT ![r].armed = FALSE]
            /\ UNCHANGED messageHandlersRef
  /\ UNCHANGED <<now, user, wsRef, reconnectTimeoutRef, sockets, timers, state>>

RequestIds == 1..Len(requests)

\* The envelopes the peer may deliver: of any type, either produced for a
\* transmitted request r (the server copies the request's id, re = r) or
\* unsolicited (the welcome, a ping, an envelope without id; re = 0).
Inbound ==
  {[id |-> requests[r].id, type |-> t, re |-> r] :
     r \in {q \in RequestIds : requests[q].sock # NoSocket}, t \in EnvelopeTypes}
  \cup {[id |-> i, type |-> t, re |-> 0] : i \in {WelcomeId, PingId, NoId},
                                           t \in EnvelopeTypes}

NextCorr ==
  \/ \E rnd \in 1..MaxRandom : SendMessage(rnd)
  \/ \E s \in SocketIds : \E m \in Inbound : OnMessage(s, m)
  \/ \E s \in SocketIds : OnGarbage(s)
  \/ \E r \in RequestIds : RequestTimesOut(r)

Next == (NextConn /\ Len(sockets') <= MaxSendSockets) \/ NextCorr

Spec == Init /\ [][Next /\ UNCHANGED serverVars]_vars

\* ================================================================ server
PingInterval == 30000

\* The capability registries the server module fills when it is loaded.
ToolNames ==
  {"get_weather", "list_files", "read_file", "web_search", "db_query",
   "db_schema", "db_samples", "echo", "get_time"}
ResourceUris ==
  {"docs://mcp-overview", "docs://tool-development", "docs://best-practices",
   "api://weather-endpoints", "api://database-schema",
   "config://server-settings", "config://tool-registry"}

\* canUseTool(user, toolName): the table of middleware.ts.
CanUseTool(role, toolName) ==
  IF role = "admin"
    THEN toolName \in {"echo", "get_time", "get_weather", "list_files",
                       "read_file", "web_search", "db_query", "db_schema",
                       "db_samples"}
  ELSE IF role = "user"
    THEN toolName \in {"echo", "get_time", "get_weather", "web_search"}
  ELSE FALSE

\* canAccessResource(user, resourceUri).
CanAccessResource(role, resourceUri) ==
  IF role = "admin"
    THEN resourceUri \in {"docs://mcp-overview", "docs://tool-development",
                          "docs://best-practices", "api://weather-endpoints",
                          "api://database-schema", "config://server-settings",
                          "config://tool-registry"}
  ELSE IF role = "user"
    THEN resourceUri \in {"docs://mcp-overview", "docs://tool-development",
                          "docs://best-practices", "api://weather-endpoints"}
  ELSE FALSE

\* A credential as one of the three handshake sources carries it: absent,
\* a string verifyToken() rejects, or the valid token of user u (u >= 1).
Absent == 0
Invalid == 0 - 1
Credentials == {Absent, Invalid} \cup 1..MaxUsers

\* Mutant: the cookie is consulted first.
ExtractToken_CookieFirst(query, header, cookie) ==
  IF cookie # Absent THEN cookie
  ELSE IF header # Absent THEN header
  ELSE query

\* The token handleConnection uses: query parameter, else Authorization
\* header, else (only when both are absent) the auth-token cookie.
ExtractToken(query, header, cookie) ==
  IF query # Absent THEN query
  ELSE IF header # Absent THEN header
  ELSE cookie

\* verifyToken(): the decoded user id, or Absent for null.
VerifyToken(token) == IF token >= 1 THEN token ELSE Absent
\* decoded.role of the token of user u: the first account is an ordinary
\* user, the second the administrator; a further token carries a role the
\* permission tables do not list.
RoleOf(u) == IF u = 1 THEN "user" ELSE IF u = 2 THEN "admin" ELSE "guest"

\* getAllTools() and getAllResources(), by name and by uri.
GetAllTools_OnlyEcho == {"echo"}
GetAllTools == ToolNames
GetAllResources == ResourceUris

Envelope(id, type, text, re) == [id |-> id, type |-> type, text |-> text, re |-> re]

\* Mutant: a frame goes out whatever the state of the socket.
ServerSend_Unguarded(cs, c, env) == [cs EXCEPT ![c].sent = Append(@, env)]

\* ws.send(): the frame goes out only while the socket is open.
ServerSend(cs, c, env) ==
  [cs EXCEPT ![c].sent = IF cs[c].readyState = "OPEN" THEN Append(@, env) ELSE @]

\* Mutant: the refusal forgets to close the socket.
Refused_StaysOpen(text, reason) ==
  [readyState |-> "OPEN", userId |-> Absent, role |-> "none",
   listening |-> FALSE, nextPing |-> 0,
   sent |-> <<Envelope("auth-error", "error", text, 0)>>,
   closeCode |-> 0, closeReason |-> reason]

\* Mutant: the refusal does not return, the listeners and the interval follow.
Refused_FallsThrough(text, reason) ==
  [readyState |-> "CLOSING", userId |-> Absent, role |-> "none",
   listening |-> TRUE, nextPing |-> now + PingInterval,
   sent |-> <<Envelope("auth-error", "error", text, 0)>>,
   closeCode |-> PolicyViolation, closeReason |-> reason]

Refused(text, reason) ==
  [readyState |-> "CLOSING", userId |-> Absent, role |-> "none",
   listening |-> FALSE, nextPing |-> 0,
   sent |-> <<Envelope("auth-error", "error", text, 0)>>,
   closeCode |-> PolicyViolation, closeReason |-> reason]

Welcomed(u) ==
  [readyState |-> "OPEN", userId |-> u, role |-> RoleOf(u),
   listening |-> TRUE, nextPing |-> now + PingInterval,
   sent |-> <<[Envelope("welcome", "mcp_response",
                        "Connected to MCP WebSocket server", 0)
               EXCEPT !.text = <<@, u, RoleOf(u), Cardinality(GetAllTools),
                                 Cardinality(GetAllResources)>>]>>,
   closeCode |-> 0, closeReason |-> "none"]

\* The registry key of a connection: `${ws.userId}-${Date.now()}`.
ClientId(u) == <<u, now>>

\* Mutant: the connection is never stored.
Register_Skipped(reg, u, c) == reg

\* clients.set(clientId, ws) of an authenticated connection c.
Register(reg, u, c) == MapSet(reg, ClientId(u), c)

\* handleConnection(ws, request) for the credentials the request carries.
HandleConnection(query, header, cookie) ==
  /\ Len(conns) < MaxConns
  /\ LET token == ExtractToken(query, header, cookie)
         u == VerifyToken(token)
         c == Len(conns) + 1
     IN IF token = Absent
          THEN /\ conns' = Append(conns, Refused("Authentication token required",
                                                 "Authentication required"))
               /\ UNCHANGED clients
        ELSE IF u = Absent
          THEN /\ conns' = Append(conns, Refused("Invalid authentication token",
                                                 "Authentication failed"))
               /\ UNCHANGED clients
        ELSE /\ conns' = Append(conns, Welcomed(u))
             /\ clients' = Register(clients, u, c)
  /\ UNCHANGED <<now, clientVars, http, tools, resources, inbox>>

Methods == {"tools/list", "resources/list", "resources/read", "tools/call"}

\* Mutant: the tests of params.uri and params.name are left out.
Dispatch_NoParamCheck(method, param) ==
  IF method = "tools/list" THEN <<"mcp_response", <<"tools", GetAllTools>>>>
  ELSE IF method = "resources/list"
    THEN <<"mcp_response", <<"resources", GetAllResources>>>>
  ELSE IF method = "resources/read"
    THEN IF param \notin GetAllResources
           THEN <<"error", "Resource not found: " \o param>>
         ELSE <<"mcp_response", <<"content", param>>>>
  ELSE IF method = "tools/call" THEN <<"running", "none">>
  ELSE <<"error", "Unknown MCP method: " \o method>>

\* What handleMCPRequest does with a request before any await on a tool:
\* "running" when it awaits executeTool, else the envelope type and text.
Dispatch(method, param) ==
  IF method = "tools/list" THEN <<"mcp_response", <<"tools", GetAllTools>>>>
  ELSE IF method = "resources/list"
    THEN <<"mcp_response", <<"resources", GetAllResources>>>>
  ELSE IF method = "resources/read"
    THEN IF param = "none" THEN <<"error", "Resource URI is required">>
         ELSE IF param \notin GetAllResources
           THEN <<"error", "Resource not found: " \o param>>
         ELSE <<"mcp_response", <<"content", param>>>>
  ELSE IF method = "tools/call"
    THEN IF param = "none" THEN <<"error", "Tool name is required">>
         ELSE IF param \notin ToolNames
           THEN <<"error", "Tool not found: " \o param>>
         ELSE <<"running", "none">>
  ELSE <<"error", "Unknown MCP method: " \o method>>

\* Mutant: the type of the envelope is not looked at.
IsRouted_AnyType(m) == m.method \notin {"none", ""}

\* Whether handleMessage passes the parsed envelope to handleMCPRequest.
IsRouted(m) == m.type = "mcp_request" /\ m.method \notin {"none", ""}

\* The texts a client may send: text JSON.parse rejects, or an envelope
\* (params matter to resources/read and tools/call only).  A field the
\* envelope lacks is "none"; method "" is the empty string.
RequestIdValues == {"a", "b"}
ServerInbound ==
  {[type |-> "garbage", id |-> "none", method |-> "none", param |-> "none"],
   [type |-> "pong", id |-> "ping", method |-> "none", param |-> "none"],
   [type |-> "pong", id |-> "a", method |-> "tools/list", param |-> "none"]}
  \cup {[type |-> "none", id |-> "a", method |-> "tools/list", param |-> "none"],
        [type |-> "mcp_request", id |-> "a", method |-> "", param |-> "none"]}
  \cup [type : {"mcp_request"}, id : RequestIdValues,
        method : {"tools/list", "resources/list", "none", "bogus/op"},
        param : {"none"}]
  \cup [type : {"mcp_request"}, id : {"a"},
        method : {"resources/read"},
        param : {"none", "unknown", "docs://mcp-overview", "config://server-settings"}]
  \cup [type : {"mcp_request"}, id : {"a"},
        method : {"tools/call"},
        param : {"none", "unknown", "echo", "db_query"}]

\* Mutant: text that cannot be parsed makes the server close the connection.
HandleMessage_FatalGarbage(c, m) ==
  /\ conns[c].readyState = "OPEN"
  /\ conns[c].listening
  /\ Len(inbox) < MaxInbox
  /\ LET r == Len(inbox) + 1
         d == Dispatch(m.method, m.param)
         req == [conn |-> c, id |-> m.id, type |-> m.type, method |-> m.method,
                 param |-> m.param, phase |-> "done", replies |-> 0]
     IN IF m.type = "garbage"
          THEN /\ conns' = [conns EXCEPT ![c].readyState = "CLOSING",
                                         ![c].closeCode = PolicyViolation]
               /\ inbox' = Append(inbox, req)
        ELSE IF ~IsRouted(m) \/ d[1] = "running"
          THEN /\ inbox' = Append(inbox, [req EXCEPT !.phase =
                                IF IsRouted(m) THEN "running" ELSE "done"])
               /\ UNCHANGED conns
        ELSE /\ inbox' = Append(inbox, [req EXCEPT !.replies = 1])
             /\ conns' = ServerSend(conns, c, Envelope(m.id, d[1], d[2], r))
  /\ UNCHANGED <<now, clientVars, http, tools, resources, clients>>

\* handleMessage(ws, message) on connection c; inbox records the text.
HandleMessage(c, m) ==
  /\ conns[c].readyState = "OPEN"
  /\ conns[c].listening
  /\ Len(inbox) < MaxInbox
  /\ LET r == Len(inbox) + 1
         d == Dispatch(m.method, m.param)
         req == [conn |-> c, id |-> m.id, type |-> m.type, method |-> m.method,
                 param |-> m.param, phase |-> "done", replies |-> 0]
     IN IF m.type = "garbage"
          THEN /\ conns' = ServerSend(conns, c,
                    Envelope("parse-error", "error", "Invalid message format", 0))
               /\ inbox' = Append(inbox, req)
        ELSE IF ~IsRouted(m)
          THEN /\ inbox' = Append(inbox, req)
               /\ UNCHANGED conns
        ELSE IF d[1] = "running"
          THEN /\ inbox' = Append(inbox, [req EXCEPT !.phase = "running"])
               /\ UNCHANGED conns
        ELSE /\ inbox' = Append(inbox, [req EXCEPT !.replies = 1])
             /\ conns' = ServerSend(conns, c, Envelope(m.id, d[1], d[2], r))
  /\ UNCHANGED <<now, clientVars, http, tools, resources, clients>>

\* Mutant: a handler's exception is swallowed and no envelope is sent.
ToolCompletes_Swallowed(r, outcome) ==
  /\ inbox[r].phase = "running"
  /\ inbox' = [inbox EXCEPT ![r].phase = "done", ![r].replies = @ + 1]
  /\ conns' = IF outcome = "throws" THEN conns
              ELSE ServerSend(conns, inbox[r].conn,
                              Envelope(inbox[r].id, "mcp_response", "content", r))
  /\ UNCHANGED <<now, clientVars, http, tools, resources, clients>>

\* Mutant: the terminal envelope goes to the connection accepted last.
ToolCompletes_ToLatest(r, outcome) ==
  /\ inbox[r].phase = "running"
  /\ inbox' = [inbox EXCEPT ![r].phase = "done", ![r].replies = @ + 1]
  /\ conns' = ServerSend(conns, Len(conns),
       IF outcome = "throws"
         THEN Envelope(inbox[r].id, "error", "handler failed", r)
         ELSE Envelope(inbox[r].id, "mcp_response", "content", r))
  /\ UNCHANGED <<now, clientVars, http, tools, resources, clients>>

\* The tool handler awaited for request r returns (outcome "content") or
\* throws (outcome "throws"); handleMCPRequest sends the terminal envelope.
ToolCompletes(r, outcome) ==
  /\ inbox[r].phase = "running"
  /\ inbox' = [inbox EXCEPT ![r].phase = "done", ![r].replies = @ + 1]
  /\ conns' = ServerSend(conns, inbox[r].conn,
       IF outcome = "throws"
         THEN Envelope(inbox[r].id, "error", "handler failed", r)
         ELSE Envelope(inbox[r].id, "mcp_response", "content", r))
  /\ UNCHANGED <<now, clientVars, http, tools, resources, clients>>

\* The 'close' listener: delete the first registry entry that holds ws.
Unregister(reg, c) ==
  LET keys == {k \in DOMAIN reg : reg[k] = c}
  IN IF keys = {} THEN reg ELSE MapDelete(reg, CHOOSE k \in keys : TRUE)

\* Connection c closes (the peer or the network ends it, or the closing
\* handshake the server started completes).
ConnectionCloses(c) ==
  /\ conns[c].readyState # "CLOSED"
  /\ conns' = [conns EXCEPT ![c].readyState = "CLOSED"]
  /\ clients' = IF conns[c].listening THEN Unregister(clients, c) ELSE clients
  /\ UNCHANGED <<now, clientVars, http, tools, resources, inbox>>

\* Mutant: the callback sends without looking at the socket's state.
PingFires_Unchecked(c) ==
  /\ conns[c].nextPing # 0
  /\ now >= conns[c].nextPing
  /\ conns' = [conns EXCEPT ![c].sent = Append(@, Envelope("ping", "ping", "none", 0)),
                            ![c].nextPing = @ + PingInterval]
  /\ UNCHANGED <<now, clientVars, http, tools, resources, clients, inbox>>

\* The setInterval callback of connection c.
PingFires(c) ==
  /\ conns[c].nextPing # 0
  /\ now >= conns[c].nextPing
  /\ IF conns[c].readyState = "OPEN"
       THEN conns' = [ServerSend(conns, c, Envelope("ping", "ping", "none", 0))
                        EXCEPT ![c].nextPing = @ + PingInterval]
       ELSE conns' = [conns EXCEPT ![c].nextPing = 0]
  /\ UNCHANGED <<now, clientVars, http, tools, resources, clients, inbox>>

ConnIds == 1..Len(conns)
InboxIds == 1..Len(inbox)

\* Date.now() advances on the server.
ServerTick ==
  /\ \E b \in 1..MaxPings : b * PingInterval > now /\ now' = b * PingInterval
  /\ UNCHANGED <<clientVars, serverVars>>

NextServer ==
  \/ ServerTick
  \/ \E q \in Credentials, h \in Credentials, k \in Credentials :
       HandleConnection(q, h, k)
  \/ \E c \in ConnIds : \E m \in ServerInbound : HandleMessage(c, m)
  \/ \E r \in InboxIds : \E o \in {"content", "throws"} : ToolCompletes(r, o)
  \/ \E c \in ConnIds : ConnectionCloses(c)
  \/ \E c \in ConnIds : PingFires(c)

SpecServer == Init /\ [][NextServer]_vars

\* ------------------------------------------------ pushes and the registry
\* The envelope a caller hands to broadcast() or sendToUser().
PushEnvelope == Envelope("push", "mcp_response", "push", 0)
PushCount(c) ==
  Cardinality({i \in 1..Len(conns[c].sent) : conns[c].sent[i].id = "push"})

\* Mutant: the loop does not test readyState.
OpenEntries_AnyState ==
  {c \in 1..Len(conns) : \E k \in DOMAIN clients : clients[k] = c}

\* The open connections the loop over this.clients reaches.
OpenEntries ==
  {c \in ConnIds : /\ \E k \in DOMAIN clients : clients[k] = c
                   /\ conns[c].readyState = "OPEN"}

\* client.send(messageStr) for each connection in targets.
SendToEntries(targets) ==
  /\ \A c \in targets : PushCount(c) < MaxPushes
  /\ conns' = [c \in ConnIds |->
                 IF c \in targets
                   THEN [conns[c] EXCEPT !.sent = Append(@, PushEnvelope)]
                   ELSE conns[c]]
  /\ UNCHANGED <<now, clientVars, http, tools, resources, clients, inbox>>

\* broadcast(message, excludeUserId); Absent stands for no excludeUserId.
Broadcast(excludeUserId) ==
  SendToEntries({c \in OpenEntries : conns[c].userId # excludeUserId})

\* sendToUser(userId, message).
SendToUser(userId) ==
  SendToEntries({c \in OpenEntries : conns[c].userId = userId})

\* The closing handshake of registered connection c begins (the peer's close
\* frame arrives): readyState is CLOSING until the 'close' event.
ClosingStarts(c) ==
  /\ conns[c].readyState = "OPEN"
  /\ conns' = [conns EXCEPT ![c].readyState = "CLOSING"]
  /\ UNCHANGED <<now, clientVars, http, tools, resources, clients, inbox>>

\* The requests whose handler the router awaits.
ToolCalls ==
  {m \in ServerInbound : m.method = "tools/call" /\ m.param = "echo" /\ m.id = "a"}

NextRegistry ==
  \/ ServerTick
  \/ \E q \in Credentials, h \in Credentials, k \in Credentials :
       HandleConnection(q, h, k)
  \/ \E c \in ConnIds : \E m \in ToolCalls : HandleMessage(c, m)
  \/ \E r \in InboxIds : \E o \in {"content", "throws"} : ToolCompletes(r, o)
  \/ \E c \in ConnIds : ConnectionCloses(c)
  \/ \E c \in ConnIds : PingFires(c)
  \/ \E c \in ConnIds : ClosingStarts(c)
  \/ \E u \in {Absent} \cup (1..MaxUsers) : Broadcast(u)
  \/ \E u \in 1..MaxUsers : SendToUser(u)

SpecRegistry == Init /\ [][NextRegistry]_vars

\* ------------------------------------------------------ POST /api/mcp
\* NextResponse.json(...) of one exchange: the status, the error text or
\* "none", the result, and what the handler ran on the way (the tool
\* executed, the resource read) for the role of the caller.
Reply(role, status, error, result, tool, uri) ==
  [role |-> role, status |-> status, error |-> error, result |-> result,
   tool |-> tool, uri |-> uri]

\* The bodies a caller may post: text request.json() rejects, or an object
\* with a method and, in params, the name or uri ("none" when it lacks it).
HttpBodies ==
  [method : {"garbage", "tools/list", "resources/list", "bogus/op"},
   param : {"none"}]
  \cup [method : {"resources/read"},
        param : {"none", "unknown", "docs://mcp-overview", "config://server-settings"}]
  \cup [method : {"tools/call"},
        param : {"none", "unknown", "echo", "db_query"}]

\* Mutant: the permission tests of resources/read and tools/call are left out.
Permitted_Always(role, method, param) == TRUE

\* The permission test POST applies before it reads or executes.
Permitted(role, method, param) ==
  IF method = "tools/call" THEN CanUseTool(role, param)
  ELSE CanAccessResource(role, param)

\* Mutant: requireAuth lets every request through as the first account.
RequireAuth_Open(cookie) == <<1, "none">>

\* requireAuth(request): the user, or Absent and the error text.
RequireAuth(cookie) ==
  IF cookie = Absent THEN <<Absent, "Authentication required">>
  ELSE IF VerifyToken(cookie) = Absent THEN <<Absent, "Invalid or expired token">>
  ELSE <<VerifyToken(cookie), "none">>

\* Mutant: the lists are returned unfiltered.
Allowed_Unfiltered(role, method) ==
  IF method = "tools/list" THEN GetAllTools ELSE GetAllResources

\* The filter of tools/list and resources/list.
Allowed(role, method) ==
  IF method = "tools/list"
    THEN {t \in GetAllTools : CanUseTool(role, t)}
    ELSE {r \in GetAllResources : CanAccessResource(role, r)}

\* POST(request) with the auth-token cookie and the body given; outcome is
\* what an executed tool handler does.
HttpPost(cookie, body, outcome) ==
  /\ Len(http) < MaxPosts
  /\ LET auth == RequireAuth(cookie)
         role == RoleOf(auth[1])
         m == body.method
         x == body.param
         reply ==
           IF auth[1] = Absent
             THEN Reply("none", 401, auth[2], "none", "none", "none")
           ELSE IF m = "garbage"
             THEN Reply(role, 500, "Failed to process MCP request", "none", "none", "none")
           ELSE IF m \in {"tools/list", "resources/list"}
             THEN Reply(role, 200, "none", Allowed(role, m), "none", "none")
           ELSE IF m = "resources/read"
             THEN IF x = "none"
                    THEN Reply(role, 400, "Resource URI is required", "none", "none", "none")
                  ELSE IF ~Permitted(role, m, x)
                    THEN Reply(role, 403, "Access denied to this resource", "none", "none", "none")
                  ELSE IF x \notin GetAllResources
                    THEN Reply(role, 404, "Resource not found: " \o x, "none", "none", "none")
                  ELSE Reply(role, 200, "none", <<"contents", x>>, "none", x)
           ELSE IF m = "tools/call"
             THEN IF x = "none"
                    THEN Reply(role, 400, "Tool name is required", "none", "none", "none")
                  ELSE IF ~Permitted(role, m, x)
                    THEN Reply(role, 403, "Access denied to this tool", "none", "none", "none")
                  ELSE IF x \notin ToolNames
                    THEN Reply(role, 500, "Failed to process MCP request", "none", "none", "none")
                  ELSE IF outcome = "throws"
                    THEN Reply(role, 500, "Failed to process MCP request", "none", x, "none")
                  ELSE Reply(role, 200, "none", <<"content", x>>, x, "none")
           ELSE Reply(role, 400, "Unknown method: " \o m, "none", "none", "none")
     IN http' = Append(http, [cookie |-> cookie, body |-> body, reply |-> reply])
  /\ UNCHANGED <<now, clientVars, conns, clients, inbox, tools, resources>>

HttpCookies == {Absent, Invalid} \cup 1..MaxAccounts
HttpIds == 1..Len(http)

NextHttp ==
  \E cookie \in HttpCookies, body \in HttpBodies, o \in {"content", "throws"} :
    HttpPost(cookie, body, o)

SpecHttp == Init /\ [][NextHttp]_vars

\* ------------------------------------------------- capability registries
\* Mutant: a registration always adds an entry.
RegistrySet_Push(reg, k, v) == Append(reg, Entry(k, v))

\* Map.prototype.set(k, v): replace the value of key k in place, or add the
\* entry at the end.
RegistrySet(reg, k, v) ==
  IF k \in Keys(reg)
    THEN [i \in 1..Len(reg) |-> IF reg[i].key = k THEN Entry(k, v) ELSE reg[i]]
    ELSE Append(reg, Entry(k, v))

\* registerTool(tool) and registerResource(resource).
RegisterTool(name, v) ==
  /\ tools' = RegistrySet(tools, name, v)
  /\ UNCHANGED <<now, clientVars, conns, clients, inbox, http, resources>>

RegisterResource(uri, v) ==
  /\ resources' = RegistrySet(resources, uri, v)
  /\ UNCHANGED <<now, clientVars, conns, clients, inbox, http, tools>>

\* getToolCount() and getResourceCount(): the size of the Map.
GetToolCount == Len(tools)
GetResourceCount == Len(resources)

\* The names later registrations use: ones both entry points register, and
\* one that is new.
RegisteredAgain == {"echo", "get_time", "get_weather", "new_tool"}
RegisteredAgainUris == {"docs://mcp-overview", "new://resource"}

NextRegistrations ==
  \/ \E n \in RegisteredAgain, v \in 1..MaxVersions : RegisterTool(n, v)
  \/ \E u \in RegisteredAgainUris, v \in 1..MaxVersions : RegisterResource(u, v)

SpecRegistrations == Init /\ [][NextRegistrations]_vars

\* ================================================================ claims
\* C8: an abnormal closure (close code other than 1000) while the session is
\* active arms exactly one reconnect timer, due after ReconnectDelay; the close
\* event of a socket that disconnect() closed arms none.
C8_AbnormalArmsOne_DeliberateArmsNone ==
  [][\A s \in SocketIds :
       /\ \A code \in CloseCodes \ {NormalClosure} :
            (RemoteClose(s, code) /\ user # NoUser) =>
               /\ Cardinality(timers') = Cardinality(timers) + 1
               /\ \E t \in timers' \ timers : t.due = now + ReconnectDelay
       /\ LocalCloseEvent(s) => timers' = timers]_vars

\* C9: at most one reconnect timer is outstanding, and when the session ends
\* (the user becomes null, the effect runs disconnect()) no timer stays armed.
C9_OneTimer_LogoutCancels ==
  /\ [](Cardinality(timers) <= 1)
  /\ [][(user # NoUser /\ user' = NoUser) => timers' = {}]_vars

\* C10: the hook never holds two sockets that are connecting or open.
C10_OneLiveSocket == Cardinality({s \in SocketIds : Live(s)}) <= 1

\* The requests that were transmitted (sendMessage found the socket open).
Transmitted == {r \in RequestIds : requests[r].sock # NoSocket}

\* C2: resolve/reject of a request's future is called at most once (by its
\* handler or by its timeout, never both), and an envelope for a request that
\* is already settled changes neither a future nor the pending table.
C2_SettledAtMostOnce ==
  /\ [](\A r \in RequestIds : requests[r].calls <= 1)
  /\ [][\A s \in SocketIds : \A m \in Inbound :
          (OnMessage(s, m) /\ m.re # 0 /\ requests[m.re].future # "pending")
             => UNCHANGED <<requests, messageHandlersRef>>]_vars

\* C3: a transmitted request does not stay pending: once its 30 s timer has
\* fired it is settled (by an envelope before, or by the timeout).
C3_SettledOnceDeadlinePassed ==
  \A r \in Transmitted : ~requests[r].armed => requests[r].future # "pending"

\* C6: the envelope the server produced for request m.re settles that request
\* and no other, in whatever order envelopes arrive.
C6_SettlesOwnRequestOnly ==
  [][\A s \in SocketIds : \A m \in Inbound :
       (OnMessage(s, m) /\ m.re # 0)
          => \A r \in RequestIds \ {m.re} : requests'[r] = requests[r]]_vars

\* C7: when the 30 s timer of a request that got no envelope fires, its entry
\* is removed and its future rejected with the timeout error; an envelope for it
\* that arrives afterwards changes neither a future nor the pending table.
C7_TimeoutRejects_LateEnvelopeDropped ==
  [][/\ \A r \in RequestIds :
          (RequestTimesOut(r) /\ requests[r].calls = 0)
             => /\ requests'[r].future = "Request timeout"
                /\ requests[r].id \notin DOMAIN messageHandlersRef'
     /\ \A s \in SocketIds : \A m \in Inbound :
          (OnMessage(s, m) /\ m.re # 0 /\ requests[m.re].future = "Request timeout")
             => UNCHANGED <<requests, messageHandlersRef>>]_vars

\* The envelopes sent on connection c that satisfy P.
Welcomes(c) ==
  {i \in 1..Len(conns[c].sent) : conns[c].sent[i].id = "welcome"}
AuthErrors(c) ==
  {i \in 1..Len(conns[c].sent) : conns[c].sent[i].id = "auth-error"}
EntriesOf(reg, c) == {k \in DOMAIN reg : reg[k] = c}
Terminal(e) == e.type \in {"mcp_response", "error"}

\* C1: every mcp_request envelope the server has finished handling got exactly
\* one terminal envelope (never more than one while it is handled), and every
\* envelope sent for it carries its id.
C1_OneTerminalEnvelopePerRequest ==
  \A r \in InboxIds :
    inbox[r].type = "mcp_request" =>
      /\ inbox[r].replies <= 1
      /\ inbox[r].phase = "done" => inbox[r].replies = 1
      /\ \A i \in 1..Len(conns[inbox[r].conn].sent) :
           LET e == conns[inbox[r].conn].sent[i]
           IN e.re = r => (e.id = inbox[r].id /\ Terminal(e))

\* C4: a handshake with a valid credential sends the welcome envelope (id
\* welcome, type mcp_response, identity and counts) and leaves exactly one
\* registry entry for the connection; no connection ever gets a second welcome.
C4_ValidHandshake ==
  /\ [](\A c \in ConnIds :
          Cardinality(Welcomes(c)) = (IF conns[c].userId # Absent THEN 1 ELSE 0))
  /\ [][\A q \in Credentials, h \in Credentials, k \in Credentials :
          (HandleConnection(q, h, k) /\ VerifyToken(ExtractToken(q, h, k)) # Absent)
            => LET c == Len(conns) + 1
                   u == VerifyToken(ExtractToken(q, h, k))
               IN /\ Len(conns'[c].sent) = 1
                  /\ conns'[c].sent[1].id = "welcome"
                  /\ conns'[c].sent[1].type = "mcp_response"
                  /\ conns'[c].sent[1].text[2] = u
                  /\ conns'[c].sent[1].text[3] = RoleOf(u)
                  /\ conns'[c].sent[1].text[4] = Cardinality(ToolNames)
                  /\ conns'[c].sent[1].text[5] = Cardinality(ResourceUris)
                  /\ Cardinality(EntriesOf(clients', c)) = 1
                  /\ Cardinality(DOMAIN clients') <= Cardinality(DOMAIN clients) + 1]_vars

C4_Witness ==
  \E c \in ConnIds :
    /\ conns[c].userId # Absent
    /\ EntriesOf(clients, c) # {}
    /\ \E r \in InboxIds : inbox[r].conn = c /\ inbox[r].replies = 1

\* C5: a handshake without a credential, or with one verifyToken rejects,
\* sends one error envelope and nothing else, never has a registry entry, and
\* is closed by the server with code 1008 and the reason of its case.
C5_RefusedHandshake ==
  /\ [](\A c \in ConnIds :
          conns[c].userId = Absent =>
            /\ Len(conns[c].sent) = 1
            /\ Cardinality(AuthErrors(c)) = 1
            /\ conns[c].sent[1].type = "error"
            /\ EntriesOf(clients, c) = {}
            /\ conns[c].readyState # "OPEN"
            /\ conns[c].closeCode = PolicyViolation)
  /\ [][\A q \in Credentials, h \in Credentials, k \in Credentials :
          (HandleConnection(q, h, k) /\ VerifyToken(ExtractToken(q, h, k)) = Absent)
            => LET c == Len(conns) + 1
               IN /\ conns'[c].userId = Absent
                  /\ clients' = clients
                  /\ conns'[c].closeReason =
                       (IF ExtractToken(q, h, k) = Absent
                          THEN "Authentication required"
                          ELSE "Authentication failed")]_vars

C5_Witness ==
  /\ \E c \in ConnIds :
       conns[c].closeReason = "Authentication required" /\ conns[c].readyState = "CLOSED"
  /\ \E c \in ConnIds :
       conns[c].closeReason = "Authentication failed" /\ conns[c].readyState = "CLOSED"

\* C11: once the close listener has removed a connection's registry entry, no
\* envelope reaches that connection again (no broadcast, no sendToUser, no
\* ping, no terminal envelope of a handler that completes later) and it never
\* has an entry again; a connection holds at most one entry and a closure
\* removes at most one.
C11_NoSendAfterRemoval ==
  /\ [](\A c \in ConnIds :
          /\ Cardinality(EntriesOf(clients, c)) <= 1
          /\ conns[c].readyState = "CLOSED" => EntriesOf(clients, c) = {})
  /\ [][\A c \in ConnIds :
          /\ conns[c].readyState = "CLOSED" => conns'[c].sent = conns[c].sent
          /\ ConnectionCloses(c) =>
               Cardinality(DOMAIN clients) - Cardinality(DOMAIN clients') =
                 Cardinality(EntriesOf(clients, c))]_vars

C11_Witness ==
  \E r \in InboxIds, d \in ConnIds :
    LET c == inbox[r].conn
    IN /\ conns[c].readyState = "CLOSED"
       /\ conns[c].userId # Absent
       /\ inbox[r].phase = "done"
       /\ \A i \in 1..Len(conns[c].sent) : conns[c].sent[i].re # r
       /\ PushCount(c) = 0
       /\ PushCount(d) = 1
       /\ now >= conns[c].nextPing

\* C12: a request that names a method other than the four the router knows is
\* answered with one error envelope that carries the request's id and the text
\* "Unknown MCP method: <method>"; the connection stays open, registered and
\* listening.
C12_UnknownMethodAnswered ==
  [][\A c \in ConnIds, m \in ServerInbound :
       (HandleMessage(c, m) /\ m.type = "mcp_request"
          /\ m.method \notin Methods \cup {"none"})
       => /\ conns'[c].sent =
               Append(conns[c].sent,
                      Envelope(m.id, "error", "Unknown MCP method: " \o m.method,
                               Len(inbox) + 1))
          /\ conns'[c].readyState = "OPEN"
          /\ conns'[c].listening
          /\ clients' = clients]_vars

\* C13: text that is not JSON, and an envelope that lacks its type or its
\* method, are answered with the parse-error envelope ("Invalid message
\* format"); the connection stays open, registered and listening.
C13_MalformedAnswered ==
  [][\A c \in ConnIds, m \in ServerInbound :
       (HandleMessage(c, m)
          /\ (m.type \in {"garbage", "none"}
                \/ (m.type = "mcp_request" /\ m.method = "none")))
       => /\ conns'[c].sent =
               Append(conns[c].sent,
                      Envelope("parse-error", "error", "Invalid message format", 0))
          /\ conns'[c].readyState = "OPEN"
          /\ conns'[c].listening
          /\ clients' = clients]_vars

\* C14: when the handler awaited for a request throws, the open connection
\* gets one error envelope with that request's id and the handler's message
\* and stays open and registered; every other request keeps its state (one
\* still awaited can complete afterwards), the envelopes already sent are
\* untouched, and no other connection is affected.
C14_HandlerFailureIsolated ==
  [][\A r \in InboxIds :
       (ToolCompletes(r, "throws") /\ conns[inbox[r].conn].readyState = "OPEN")
       => LET c == inbox[r].conn
          IN /\ conns'[c].sent =
                  Append(conns[c].sent,
                         Envelope(inbox[r].id, "error", "handler failed", r))
             /\ conns'[c].readyState = "OPEN"
             /\ conns'[c].listening
             /\ clients' = clients
             /\ \A q \in InboxIds \ {r} : inbox'[q] = inbox[q]
             /\ \A d \in ConnIds \ {c} : conns'[d] = conns[d]]_vars

C14_Witness ==
  \E q \in InboxIds, r \in InboxIds :
    LET c == inbox[r].conn
    IN /\ q < r
       /\ inbox[q].conn = c
       /\ conns[c].readyState = "OPEN"
       /\ \E i \in 1..Len(conns[c].sent), j \in 1..Len(conns[c].sent) :
            /\ i < j
            /\ conns[c].sent[i] = Envelope(inbox[r].id, "error", "handler failed", r)
            /\ conns[c].sent[j] = Envelope(inbox[q].id, "mcp_response", "content", q)

\* C15: the registry holds exactly the connections that authenticated and have
\* not closed, whatever the order of handshakes and closures.
C15_RegistryIsLiveConnections ==
  \A c \in ConnIds :
    (conns[c].userId # Absent /\ conns[c].readyState # "CLOSED")
      <=> EntriesOf(clients, c) # {}

PingsIn(sent) == Cardinality({i \in 1..Len(sent) : sent[i].type = "ping"})

\* C16: a ping is sent only by the probe of a connection that authenticated
\* and is open; a connection refused at the handshake has no probe; a probe
\* that fires on a connection no longer open sends nothing and is cancelled,
\* and a cancelled probe never runs again.
C16_PingOnlyWhileOpen ==
  /\ [](\A c \in ConnIds :
          conns[c].userId = Absent
            => (conns[c].nextPing = 0 /\ PingsIn(conns[c].sent) = 0))
  /\ [][\A c \in ConnIds :
          /\ PingsIn(conns'[c].sent) # PingsIn(conns[c].sent)
               => /\ conns[c].readyState = "OPEN"
                  /\ conns[c].userId # Absent
                  /\ PingFires(c)
                  /\ PingsIn(conns'[c].sent) = PingsIn(conns[c].sent) + 1
          /\ (PingFires(c) /\ conns[c].readyState # "OPEN")
               => (conns'[c].nextPing = 0 /\ conns'[c].sent = conns[c].sent)
          /\ conns[c].nextPing = 0 => conns'[c].nextPing = 0]_vars

C16_Witness ==
  \E c \in ConnIds, d \in ConnIds :
    /\ conns[c].userId # Absent
    /\ conns[c].readyState = "CLOSED"
    /\ conns[c].nextPing = 0
    /\ PingsIn(conns[c].sent) = 0
    /\ conns[d].readyState = "OPEN"
    /\ PingsIn(conns[d].sent) = 1

\* C17: an inbound pong settles no request and removes no pending entry, even
\* when it carries the id of a pending request.
C17_PongNeverCorrelated ==
  [][\A s \in SocketIds, m \in Inbound :
       (OnMessage(s, m) /\ m.type = "pong")
       => (requests' = requests /\ messageHandlersRef' = messageHandlersRef)]_vars

C17_Witness ==
  \E r \in RequestIds :
    /\ requests[r].future = "pending"
    /\ requests[r].id \in DOMAIN messageHandlersRef
    /\ sockets[requests[r].sock].readyState = "OPEN"
    /\ [id |-> requests[r].id, type |-> "pong", re |-> r] \in Inbound

\* C18: sendMessage called while there is no socket, or the socket is not
\* open, rejects at once with "WebSocket is not connected", registers no
\* handler, arms no timer and transmits nothing.
C18_NotConnectedRejects ==
  [][\A rnd \in 1..MaxRandom :
       (SendMessage(rnd) /\ ~IsOpen(Hook))
       => LET req == requests'[Len(requests) + 1]
          IN /\ Len(requests') = Len(requests) + 1
             /\ req.future = "WebSocket is not connected"
             /\ req.calls = 1
             /\ ~req.armed
             /\ req.sock = NoSocket
             /\ messageHandlersRef' = messageHandlersRef]_vars

C18_Witness ==
  /\ wsRef # NoSocket
  /\ sockets[wsRef].readyState = "CONNECTING"
  /\ \E r \in RequestIds, q \in RequestIds :
       /\ r # q
       /\ requests[r].future = "WebSocket is not connected"
       /\ requests[q].future = "WebSocket is not connected"
       /\ messageHandlersRef = EmptyMap

\* C19: an envelope whose id has a registered handler (a pong aside) settles
\* the request of that handler, rejecting it when the type is error and
\* resolving it otherwise, and the handler is removed.
C19_MatchSettlesAndRemoves ==
  [][\A s \in SocketIds, m \in Inbound :
       (OnMessage(s, m) /\ Matches(m))
       => LET r == messageHandlersRef[m.id]
          IN /\ requests[r].future = "pending"
             /\ requests'[r].future =
                  (IF m.type = "error" THEN "error" ELSE "resolved")
             /\ requests'[r].calls = 1
             /\ m.id \notin DOMAIN messageHandlersRef']_vars

C19_Witness ==
  \E r \in RequestIds, q \in RequestIds :
    /\ requests[r].future = "error"
    /\ requests[q].future = "resolved"
    /\ messageHandlersRef = EmptyMap

\* C20: handling an inbound text of any kind, and the completion or failure
\* of a handler, leave every connection's state and the registry as they
\* were; the server closes with a code only connections it refused at the
\* handshake.
C20_NoMessageIsFatal ==
  /\ [](\A c \in ConnIds : conns[c].closeCode # 0 => conns[c].userId = Absent)
  /\ [][((\E c \in ConnIds, m \in ServerInbound : HandleMessage(c, m))
           \/ (\E r \in InboxIds, o \in {"content", "throws"} : ToolCompletes(r, o)))
        => /\ clients' = clients
           /\ \A c \in ConnIds :
                /\ conns'[c].readyState = conns[c].readyState
                /\ conns'[c].listening = conns[c].listening
                /\ conns'[c].closeCode = conns[c].closeCode]_vars

C20_Witness ==
  \E c \in ConnIds, r \in InboxIds, q \in InboxIds :
    /\ conns[c].readyState = "OPEN"
    /\ EntriesOf(clients, c) # {}
    /\ inbox[r].conn = c /\ inbox[r].type = "garbage"
    /\ inbox[q].conn = c /\ inbox[q].method = "bogus/op"
    /\ r < q
    /\ Len(conns[c].sent) = 3

\* The requests of the WebSocket transport for which executeTool ran a
\* registered tool, and those for which getResourceContent returned content.
WsExecuted ==
  {r \in InboxIds : /\ inbox[r].type = "mcp_request"
                    /\ inbox[r].method = "tools/call"
                    /\ inbox[r].param \in ToolNames}
WsRead ==
  {r \in InboxIds : /\ inbox[r].type = "mcp_request"
                    /\ inbox[r].method = "resources/read"
                    /\ inbox[r].param \in GetAllResources}

\* C21: on both transports a tool runs only for an authenticated caller whose
\* role canUseTool permits, and a resource is read only for one whose role
\* canAccessResource permits.
C21_EveryOperationAuthorized ==
  /\ \A r \in WsExecuted :
       /\ conns[inbox[r].conn].userId # Absent
       /\ CanUseTool(conns[inbox[r].conn].role, inbox[r].param)
  /\ \A r \in WsRead :
       /\ conns[inbox[r].conn].userId # Absent
       /\ CanAccessResource(conns[inbox[r].conn].role, inbox[r].param)
  /\ \A i \in HttpIds :
       /\ http[i].reply.tool # "none"
            => /\ VerifyToken(http[i].cookie) # Absent
               /\ CanUseTool(RoleOf(VerifyToken(http[i].cookie)), http[i].reply.tool)
       /\ http[i].reply.uri # "none"
            => /\ VerifyToken(http[i].cookie) # Absent
               /\ CanAccessResource(RoleOf(VerifyToken(http[i].cookie)),
                                    http[i].reply.uri)

\* C24: the handshake is decided by the first credential present in the order
\* query parameter, Authorization header, cookie: when that one is rejected
\* the connection is refused with "Authentication failed" whatever the later
\* sources carry, when it is valid the connection is welcomed as its user,
\* and only when all three are absent is it refused with "Authentication
\* required".
C24_CredentialPriority ==
  [][\A q \in Credentials, h \in Credentials, k \in Credentials :
       HandleConnection(q, h, k)
       => LET c == Len(conns) + 1
              first == IF q # Absent THEN q ELSE IF h # Absent THEN h ELSE k
          IN /\ first = Absent
                  => (conns'[c].userId = Absent
                        /\ conns'[c].closeReason = "Authentication required")
             /\ first = Invalid
                  => (conns'[c].userId = Absent
                        /\ conns'[c].closeReason = "Authentication failed")
             /\ first \in 1..MaxUsers
                  => (conns'[c].userId = first /\ conns'[c].readyState = "OPEN")]_vars

C24_Witness ==
  \E c \in ConnIds, d \in ConnIds :
    /\ conns[c].closeReason = "Authentication failed"
    /\ conns[d].userId # Absent

C26_PongDropped ==
  /\ [][\A c \in ConnIds, m \in ServerInbound :
          (HandleMessage(c, m) /\ m.type = "pong")
          => /\ conns' = conns
             /\ clients' = clients
             /\ inbox'[Len(inbox) + 1].phase = "done"
             /\ inbox'[Len(inbox) + 1].replies = 0]_vars
  /\ [][\A c \in ConnIds :
          PingFires(c) => (conns'[c].readyState = conns[c].readyState
                             /\ clients' = clients)]_vars

C26_Witness ==
  \E c \in ConnIds, r \in InboxIds :
    /\ inbox[r].conn = c
    /\ inbox[r].type = "pong"
    /\ inbox[r].method = "tools/list"
    /\ conns[c].readyState = "OPEN"
    /\ PingsIn(conns[c].sent) = 1
    /\ Len(conns[c].sent) = 2

\* C29: resources/read without params.uri and tools/call without params.name
\* are answered with one error envelope that carries the request's id and
\* the text "Resource URI is required" / "Tool name is required", and no
\* handler is awaited for them.
C29_MissingParamRejected ==
  [][\A c \in ConnIds, m \in ServerInbound :
       (HandleMessage(c, m) /\ m.type = "mcp_request" /\ m.param = "none"
          /\ m.method \in {"resources/read", "tools/call"})
       => /\ conns'[c].sent =
               Append(conns[c].sent,
                      Envelope(m.id, "error",
                               IF m.method = "resources/read"
                                 THEN "Resource URI is required"
                                 ELSE "Tool name is required",
                               Len(inbox) + 1))
          /\ inbox'[Len(inbox) + 1].phase = "done"
          /\ inbox'[Len(inbox) + 1].replies = 1]_vars

C29_Witness ==
  \E c \in ConnIds, r \in InboxIds, q \in InboxIds :
    /\ inbox[r].conn = c /\ inbox[q].conn = c
    /\ inbox[r].method = "resources/read" /\ inbox[r].param = "none"
    /\ inbox[q].method = "tools/call" /\ inbox[q].param = "none"
    /\ inbox[r].replies = 1 /\ inbox[q].replies = 1
    /\ Len(conns[c].sent) = 3

C23_IdsDistinct ==
  \A r \in Transmitted, q \in Transmitted :
    r # q => requests[r].id # requests[q].id

\* The model cannot follow the retry cycle further: no socket is left, or a
\* timer is due beyond the last instant of the clock.
Exhausted ==
  \/ Len(sockets) = MaxSockets
  \/ \E t \in timers : t.due > LastInstant

C31_RegistrationReplaces ==
  /\ [](/\ GetToolCount = Cardinality(Keys(tools))
        /\ GetResourceCount = Cardinality(Keys(resources)))
  /\ [][\A n \in RegisteredAgain, v \in 1..MaxVersions :
          RegisterTool(n, v)
          => /\ Len(tools') = Len(tools) + (IF n \in Keys(tools) THEN 0 ELSE 1)
             /\ Keys(tools') = Keys(tools) \cup {n}
             /\ \A i \in 1..Len(tools') :
                  tools'[i] = IF tools'[i].key = n THEN Entry(n, v) ELSE tools[i]]_vars
  /\ [][\A u \in RegisteredAgainUris, v \in 1..MaxVersions :
          RegisterResource(u, v)
          => /\ Len(resources') =
                  Len(resources) + (IF u \in Keys(resources) THEN 0 ELSE 1)
             /\ Keys(resources') = Keys(resources) \cup {u}
             /\ \A i \in 1..Len(resources') :
                  resources'[i] =
                    IF resources'[i].key = u THEN Entry(u, v) ELSE resources[i]]_vars

C31_Witness ==
  /\ GetToolCount = 9
  /\ \E i \in 1..Len(tools) : tools[i] = Entry("echo", 2)
  /\ \E i \in 1..Len(tools) : tools[i] = Entry("get_time", 2)
  /\ GetResourceCount = 8
  /\ resources[8].key = "new://resource"

C33_NothingAfterSessionEnd ==
  [][(user = NoUser /\ user' = NoUser)
       => /\ Len(sockets') = Len(sockets)
          /\ timers' \subseteq timers]_vars

\* C34: isConnected is true only while the current socket exists and is open.
C34_ConnectedMeansCurrentOpen == state.isConnected => IsOpen(Hook)

\* C38: isConnected and isConnecting are never both true.
C38_FlagsExclusive == ~(state.isConnected /\ state.isConnecting)

\* C35: the pending table holds exactly the ids of the transmitted requests
\* whose future is not yet settled.
C35_PendingTableExact ==
  /\ DOMAIN messageHandlersRef =
       {requests[r].id : r \in {q \in Transmitted : requests[q].future = "pending"}}
  /\ \A r \in Transmitted :
       requests[r].future = "pending" =>
         /\ requests[r].id \in DOMAIN messageHandlersRef
         /\ messageHandlersRef[requests[r].id] = r

\* The envelopes connection c was sent in answer to a request.
AnswersOn(c) == {i \in 1..Len(conns[c].sent) : conns[c].sent[i].re # 0}

\* C36: every response or error produced for a request is on the connection
\* the request arrived on, and sending it leaves every other connection's
\* frames as they were.
C36_AnswerOnOwnConnection ==
  /\ [](\A c \in ConnIds : \A i \in AnswersOn(c) :
          /\ Terminal(conns[c].sent[i])
          /\ inbox[conns[c].sent[i].re].conn = c)
  /\ [][\A r \in InboxIds : \A o \in {"content", "throws"} :
          ToolCompletes(r, o)
          => \A c \in ConnIds \ {inbox[r].conn} : conns'[c].sent = conns[c].sent]_vars

\* Two connections, a tool call of the first answered after a request of the
\* second was answered.
C36_Witness ==
  /\ Len(conns) = 2 /\ Len(inbox) = 2
  /\ inbox[1].conn = 1 /\ inbox[1].method = "tools/call"
  /\ inbox[2].conn = 2
  /\ \E i \in AnswersOn(1) : conns[1].sent[i].re = 1
  /\ \E i \in AnswersOn(2) :
       conns[2].sent[i].re = 2 /\ Len(conns[1].sent) = 2 /\ inbox[1].phase = "done"

\* C37: a connection whose credential was missing or invalid never has a
\* message handled and never has a keepalive interval.
C37_NoServiceBeforeHandshake ==
  /\ [](\A c \in ConnIds : conns[c].userId = Absent
          => /\ conns[c].nextPing = 0
             /\ ~conns[c].listening
             /\ \A r \in InboxIds : inbox[r].conn # c
             /\ \A i \in 1..Len(conns[c].sent) : conns[c].sent[i].id = "auth-error")
  /\ [][\A c \in ConnIds :
          /\ (\E m \in ServerInbound : HandleMessage(c, m)) => conns[c].userId # Absent
          /\ PingFires(c) => conns[c].userId # Absent]_vars

\* A refused connection next to a served one, after the ping interval passed.
C37_Witness ==
  /\ now >= PingInterval
  /\ \E c \in ConnIds : conns[c].userId = Absent /\ Len(conns[c].sent) = 1
  /\ \E c \in ConnIds :
       /\ conns[c].userId # Absent
       /\ PingsIn(conns[c].sent) = 1
       /\ \E r \in InboxIds : inbox[r].conn = c /\ inbox[r].replies = 1
====
